---- MODULE Spec2Model ----
(***************************************************************************)
(* A model of the completion plugin "nap"/"narc":                          *)
(*   - rplugin/python3/nap/__init__.py: the plugin object Main, its event  *)
(*     handlers, the single-worker executor and the consumer loop l1;      *)
(*   - rplugin/python3/narc/server/settings.py: load_source, assemble,     *)
(*     load_external, load_factories;                                      *)
(*   - the editor-state transitions (server/transitions.py), schedule()    *)
(*     (server/scheduler.py) and the merge (server/completion.py) follow   *)
(*     the design document, sections 4.1, 4.2 and 4.3.                     *)
(* Spec is the plugin, FairSpec its scheduler under fair scheduling, SpecT *)
(* the state transitions as pure functions, SpecMerge one merge operation, *)
(* SpecFan the source tasks of one merge with their deadlines, SpecLoad    *)
(* the loading of the Settings and of the factory map.                     *)
(***************************************************************************)
EXTENDS Integers, Sequences, FiniteSets, TLC

VARIABLES
    initialized,  \* Main._initialized
    state,        \* Main.state : State(char_inserted, comp_inserted, sources)
    chan,         \* Main.chan  : work queue of the single-worker executor
    ch,           \* Main.ch    : asyncio queue of Signals read by schedule()
    autocmds,     \* TRUE once setup() has registered the autocommands
    pcl1,         \* per orchestration loop: position of the consumer loop l1
    active,       \* per orchestration loop: the merge its scheduler holds (0: none)
    mstat,        \* per request: state of its merge operation
    nsig,         \* number of Signals created so far (request ids 1..nsig)
    superseded,   \* history: requests in flight when a later Signal was put on ch
    delivered,    \* history: requests whose result was handed to l1
    compSinceTC,  \* history: comp_inserted applied since the last text-changed event
    tcSigs,       \* history: Signals enqueued by text-changed events since the last char_inserted
    lastTC,       \* history: the last text-changed event (state before it, what it enqueued)
    applied,      \* history (SpecT): the transitions applied so far, oldest first
    feeds,        \* per source, the raw completions it yielded to the merge before its deadline
    modules,      \* the module files in the directories of load_hierarchy
    settings,     \* Main.settings : the sources' SourceSpecs, the match options, the display limit
    mphase,       \* phase of the merge operation whose content is followed
    steps,        \* the ranked Steps that merge operation emits
    cfg,          \* the merged configuration `initial` and load_factories read
    loaded,       \* the SourceFactory map load_factories returned
    now,          \* seconds elapsed since the merge launched its source tasks
    sstat,        \* per source: state of its task in that merge
    snap          \* history: per source, what it had yielded when its task ended

vars == <<initialized, state, chan, ch, autocmds, pcl1, active, mstat, nsig,
          superseded, delivered, compSinceTC, tcSigs, lastTC, applied,
          feeds, modules, settings, mphase, steps, cfg, loaded, now, sstat, snap>>

mergeVars == <<feeds, modules, settings, mphase, steps, cfg, loaded, now, sstat, snap>>
fanVars == <<cfg, loaded, now, sstat, snap>>
schedVars == <<initialized, chan, ch, autocmds, pcl1, active, mstat, nsig,
               superseded, delivered, compSinceTC, tcSigs, lastTC>>

-----------------------------------------------------------------------------
(* Bounds of the model *)

MaxSignals == 3
MaxChan == 3
MaxLoops == 2
MaxApplied == 3

Requests == 1..MaxSignals
Loops == 1..MaxLoops

\* the source-id sets State.sources is drawn from
SourceSets == {{"buffers"}, {"buffers", "lsp"}}

\* the values of args[0] the editor passes to the omnifunc
FindStart == {0, 1}

-----------------------------------------------------------------------------
(* Editor state machine: server/transitions.py, modelled from section 4.1 *)

State(c, p, s) == [char_inserted |-> c, comp_inserted |-> p, sources |-> s]

States == [char_inserted : BOOLEAN, comp_inserted : BOOLEAN,
           sources : SUBSET {"buffers", "lsp"}]

initial_state == State(FALSE, FALSE, {"buffers"})

t_char_inserted(s) == [s EXCEPT !.char_inserted = TRUE]

\* comp_inserted that leaves the state as it is
t_comp_inserted_lost(s) == s

t_comp_inserted(s) == [s EXCEPT !.comp_inserted = TRUE]

\* text_changed that clears only the "char inserted" flag
t_text_changed_sticky(s) == [s EXCEPT !.char_inserted = FALSE]

t_text_changed(s) == [s EXCEPT !.char_inserted = FALSE, !.comp_inserted = FALSE]

\* set_sources: the active source-id set is replaced
t_set_sources(s, sources) == [s EXCEPT !.sources = sources]

\* toggle_sources: the named sources are switched, on to off and off to on
t_toggle_sources(s, sources) ==
    [s EXCEPT !.sources = (@ \ sources) \cup (sources \ @)]

t_natural_insertable(s) == s.char_inserted /\ ~s.comp_inserted

-----------------------------------------------------------------------------
(* Signals and the executor: nap/__init__.py *)

GenOptions(force, sources) == [force |-> force, sources |-> sources]

\* Signal(args=(options,)); id, by and nat are history fields: the request's
\* number, the handler that triggered it and t_natural_insertable at the trigger
Signal(options, by) ==
    [id |-> nsig + 1, force |-> options.force, sources |-> options.sources,
     by |-> by, nat |-> t_natural_insertable(state)]

\* the coroutines handed to _submit: cont() of next_comp, setup() and print()
NoSignal == [id |-> 0, force |-> FALSE, sources |-> {}, by |-> "none", nat |-> FALSE]
CoPut(sig) == [co |-> "put", sig |-> sig]
CoSetup == [co |-> "setup", sig |-> NoSignal]
CoPrint == [co |-> "print", sig |-> NoSignal]

\* Main._submit: the coroutine is queued on the single-worker executor
submit(cos) == Len(chan) + Len(cos) <= MaxChan /\ chan' = chan \o cos

\* Main.next_comp: submits a coroutine that puts Signal(args=(options,)) on ch
next_comp(options, by) ==
    /\ nsig < MaxSignals
    /\ submit(<<CoPut(Signal(options, by))>>)
    /\ nsig' = nsig + 1

-----------------------------------------------------------------------------
(* Merge operations and the scheduler: server/scheduler.py, section 4.2 *)

\* a merge operation that is neither Delivered nor Cancelled
InFlight == {r \in Requests : mstat[r] \in {"running", "ranked"}}

\* run_forever(self.nvim, ooda): the next orchestration loop starts and its
\* consumer l1 waits for the first item of schedule(chan=self.ch, gen=gen)
run_forever ==
    \E l \in Loops :
        /\ pcl1[l] = "off"
        /\ \A k \in Loops : k < l => pcl1[k] # "off"
        /\ pcl1' = [pcl1 EXCEPT ![l] = "next"]

\* schedule(): a Signal arriving on the channel cancels the merge still in
\* flight for the previous Signal and starts the merge of the new one
schedule_admit(l) ==
    /\ pcl1[l] = "next"
    /\ ch # <<>>
    /\ LET sig == Head(ch) IN
        /\ ch' = Tail(ch)
        /\ mstat' = [r \in Requests |->
                        IF r = sig.id THEN "running"
                        ELSE IF r = active[l] THEN "cancelled"
                        ELSE mstat[r]]
        /\ active' = [active EXCEPT ![l] = sig.id]
    /\ UNCHANGED <<initialized, state, chan, autocmds, pcl1, nsig, superseded,
                   delivered, compSinceTC, tcSigs, lastTC, applied, mergeVars>>

\* gen(): the merge of the admitted request has gathered and ranked its result
gen(l) ==
    /\ active[l] # 0
    /\ mstat[active[l]] = "running"
    /\ mstat' = [mstat EXCEPT ![active[l]] = "ranked"]
    /\ UNCHANGED <<initialized, state, chan, ch, autocmds, pcl1, active, nsig,
                   superseded, delivered, compSinceTC, tcSigs, lastTC, applied, mergeVars>>

\* schedule() hands a ranked result to its consumer only when no newer Signal
\* has arrived on the channel
schedule_yield(l) ==
    /\ pcl1[l] = "next"
    /\ ch = <<>>
    /\ active[l] # 0
    /\ mstat[active[l]] = "ranked"

-----------------------------------------------------------------------------
(* The plugin object: nap/__init__.py *)

\* initialize without the _initialized guard: every NAPstart registers the
\* autocommands and starts another orchestration loop
initialize_noguard ==
    /\ initialized' = TRUE
    /\ submit(<<CoSetup, CoPrint>>)
    /\ run_forever
    /\ UNCHANGED <<state, ch, autocmds, active, mstat, nsig, superseded,
                   delivered, compSinceTC, tcSigs, lastTC, applied, mergeVars>>

\* Main.initialize (NAPstart)
initialize ==
    /\ IF initialized
       THEN /\ submit(<<CoPrint>>)
            /\ UNCHANGED <<initialized, pcl1>>
       ELSE /\ initialized' = TRUE
            /\ submit(<<CoSetup, CoPrint>>)
            /\ run_forever
    /\ UNCHANGED <<state, ch, autocmds, active, mstat, nsig, superseded,
                   delivered, compSinceTC, tcSigs, lastTC, applied, mergeVars>>

\* an executor whose workers take the queued coroutines in no fixed order:
\* the one queued last runs first
run_unordered ==
    /\ chan # <<>>
    /\ chan' = SubSeq(chan, 1, Len(chan) - 1)
    /\ LET c == chan[Len(chan)] IN
        CASE c.co = "put" ->
                /\ ch' = Append(ch, c.sig)
                /\ superseded' = superseded \cup InFlight
                /\ UNCHANGED autocmds
          [] c.co = "setup" ->
                /\ autocmds' = TRUE
                /\ UNCHANGED <<ch, superseded>>
          [] OTHER -> UNCHANGED <<ch, superseded, autocmds>>
    /\ UNCHANGED <<initialized, state, pcl1, active, mstat, nsig, delivered,
                   compSinceTC, tcSigs, lastTC, applied, mergeVars>>

\* Main._submit.run: the executor's only worker runs the next coroutine to
\* its end (fut.result())
run ==
    /\ chan # <<>>
    /\ chan' = Tail(chan)
    /\ LET c == Head(chan) IN
        CASE c.co = "put" ->
                /\ ch' = Append(ch, c.sig)
                /\ superseded' = superseded \cup InFlight
                /\ UNCHANGED autocmds
          [] c.co = "setup" ->
                /\ autocmds' = TRUE
                /\ UNCHANGED <<ch, superseded>>
          [] OTHER -> UNCHANGED <<ch, superseded, autocmds>>
    /\ UNCHANGED <<initialized, state, pcl1, active, mstat, nsig, delivered,
                   compSinceTC, tcSigs, lastTC, applied, mergeVars>>

\* ooda.l1, lines 85-87: the loop receives the next (pos, comp) of schedule()
\* and awaits complete(nvim, col, comp)
l1_complete(l) ==
    /\ schedule_yield(l)
    /\ mstat' = [mstat EXCEPT ![active[l]] = "delivered"]
    /\ delivered' = delivered \cup {active[l]}
    /\ active' = [active EXCEPT ![l] = 0]
    /\ pcl1' = [pcl1 EXCEPT ![l] = "complete"]
    /\ UNCHANGED <<initialized, state, chan, ch, autocmds, nsig, superseded,
                   compSinceTC, tcSigs, lastTC, applied, mergeVars>>

\* l1 without line 88: the state does not record the inserted completion
l1_no_comp_inserted(l) ==
    /\ pcl1[l] = "complete"
    /\ compSinceTC' = TRUE
    /\ pcl1' = [pcl1 EXCEPT ![l] = "next"]
    /\ UNCHANGED <<initialized, state, chan, ch, autocmds, active, mstat, nsig,
                   superseded, delivered, tcSigs, lastTC, applied, mergeVars>>

\* l1 with "async for" taken once: the loop ends after the first item
l1_once(l) ==
    /\ pcl1[l] = "complete"
    /\ state' = t_comp_inserted(state)
    /\ compSinceTC' = TRUE
    /\ pcl1' = [pcl1 EXCEPT ![l] = "exit"]
    /\ UNCHANGED <<initialized, chan, ch, autocmds, active, mstat, nsig,
                   superseded, delivered, tcSigs, lastTC, applied, mergeVars>>

\* l1 that writes back the State it read before the loop started
l1_comp_inserted_stale(l) ==
    /\ pcl1[l] = "complete"
    /\ state' = t_comp_inserted([initial_state EXCEPT !.sources = state.sources])
    /\ compSinceTC' = TRUE
    /\ pcl1' = [pcl1 EXCEPT ![l] = "next"]
    /\ UNCHANGED <<initialized, chan, ch, autocmds, active, mstat, nsig,
                   superseded, delivered, tcSigs, lastTC, applied, mergeVars>>

\* ooda.l1, line 88: complete() has returned; the state records the inserted
\* completion and the loop asks schedule() for the next item
l1_comp_inserted(l) ==
    /\ pcl1[l] = "complete"
    /\ state' = t_comp_inserted(state)
    /\ compSinceTC' = TRUE
    /\ pcl1' = [pcl1 EXCEPT ![l] = "next"]
    /\ UNCHANGED <<initialized, chan, ch, autocmds, active, mstat, nsig,
                   superseded, delivered, tcSigs, lastTC, applied, mergeVars>>

\* Main.manual (NAPmanual)
manual ==
    /\ next_comp(GenOptions(TRUE, state.sources), "manual")
    /\ UNCHANGED <<initialized, state, ch, autocmds, pcl1, active, mstat,
                   superseded, delivered, compSinceTC, tcSigs, lastTC, applied, mergeVars>>

\* omnifunc with the test on find_start inverted
omnifunc_swapped(find_start) ==
    /\ IF find_start # 1
       THEN UNCHANGED <<chan, nsig>>
       ELSE next_comp(GenOptions(TRUE, state.sources), "omnifunc")
    /\ UNCHANGED <<initialized, state, ch, autocmds, pcl1, active, mstat,
                   superseded, delivered, compSinceTC, tcSigs, lastTC, applied, mergeVars>>

\* Main.omnifunc (NAPomnifunc)
omnifunc(find_start) ==
    /\ IF find_start = 1
       THEN UNCHANGED <<chan, nsig>>
       ELSE next_comp(GenOptions(TRUE, state.sources), "omnifunc")
    /\ UNCHANGED <<initialized, state, ch, autocmds, pcl1, active, mstat,
                   superseded, delivered, compSinceTC, tcSigs, lastTC, applied, mergeVars>>

\* insert_enter whose GenOptions name no source
insert_enter_no_sources ==
    /\ autocmds
    /\ next_comp(GenOptions(FALSE, {}), "insert_enter")
    /\ UNCHANGED <<initialized, state, ch, autocmds, pcl1, active, mstat,
                   superseded, delivered, compSinceTC, tcSigs, lastTC, applied, mergeVars>>

\* Main.insert_enter (InsertEnter)
insert_enter ==
    /\ autocmds
    /\ next_comp(GenOptions(FALSE, state.sources), "insert_enter")
    /\ UNCHANGED <<initialized, state, ch, autocmds, pcl1, active, mstat,
                   superseded, delivered, compSinceTC, tcSigs, lastTC, applied, mergeVars>>

\* Main.char_inserted (InsertCharPre)
char_inserted ==
    /\ autocmds
    /\ state' = t_char_inserted(state)
    /\ tcSigs' = 0
    /\ UNCHANGED <<initialized, chan, ch, autocmds, pcl1, active, mstat, nsig,
                   superseded, delivered, compSinceTC, lastTC, applied, mergeVars>>

\* history: what a text-changed handler saw and what it submitted
TextChangedEvent ==
    [seen |-> TRUE, char |-> state.char_inserted, comp |-> state.comp_inserted,
     since |-> compSinceTC,
     sent |-> [i \in 1..(Len(chan') - Len(chan)) |->
                 LET c == chan'[Len(chan) + i] IN
                 IF c.co = "put"
                 THEN [force |-> c.sig.force, sources |-> c.sig.sources = state.sources]
                 ELSE [force |-> TRUE, sources |-> FALSE]]]

NoTextChangedEvent ==
    [seen |-> FALSE, char |-> FALSE, comp |-> FALSE, since |-> FALSE, sent |-> <<>>]

\* text_changed_i without the test of t_natural_insertable
text_changed_i_always ==
    /\ autocmds
    /\ next_comp(GenOptions(FALSE, state.sources), "text_changed_i")
    /\ tcSigs' = tcSigs + 1
    /\ state' = t_text_changed(state)
    /\ compSinceTC' = FALSE
    /\ lastTC' = TextChangedEvent
    /\ UNCHANGED <<initialized, ch, autocmds, pcl1, active, mstat, superseded,
                   delivered, applied, mergeVars>>

\* Main.text_changed_i (TextChangedI)
text_changed_i ==
    /\ autocmds
    /\ IF t_natural_insertable(state)
       THEN /\ next_comp(GenOptions(FALSE, state.sources), "text_changed_i")
            /\ tcSigs' = tcSigs + 1
       ELSE UNCHANGED <<chan, nsig, tcSigs>>
    /\ state' = t_text_changed(state)
    /\ compSinceTC' = FALSE
    /\ lastTC' = TextChangedEvent
    /\ UNCHANGED <<initialized, ch, autocmds, pcl1, active, mstat, superseded,
                   delivered, applied, mergeVars>>

\* Main.text_changed_p (TextChangedP)
text_changed_p ==
    /\ autocmds
    /\ IF t_natural_insertable(state)
       THEN /\ next_comp(GenOptions(FALSE, state.sources), "text_changed_p")
            /\ tcSigs' = tcSigs + 1
       ELSE UNCHANGED <<chan, nsig, tcSigs>>
    /\ state' = t_text_changed(state)
    /\ compSinceTC' = FALSE
    /\ lastTC' = TextChangedEvent
    /\ UNCHANGED <<initialized, ch, autocmds, pcl1, active, mstat, superseded,
                   delivered, applied, mergeVars>>

-----------------------------------------------------------------------------
(* The plugin after construction (Main.__init__) and its steps *)

FanIdle ==
    /\ cfg = <<>>
    /\ loaded = <<>>
    /\ now = 0
    /\ sstat = <<>>
    /\ snap = <<>>

MergeIdle ==
    /\ feeds = <<>>
    /\ settings = <<>>
    /\ modules = {}
    /\ mphase = "off"
    /\ steps = <<>>
    /\ FanIdle

SchedIdle ==
    /\ initialized = FALSE
    /\ chan = <<>>
    /\ ch = <<>>
    /\ autocmds = FALSE
    /\ pcl1 = [l \in Loops |-> "off"]
    /\ active = [l \in Loops |-> 0]
    /\ mstat = [r \in Requests |-> "none"]
    /\ nsig = 0
    /\ superseded = {}
    /\ delivered = {}
    /\ compSinceTC = FALSE
    /\ tcSigs = 0
    /\ lastTC = NoTextChangedEvent

Init ==
    /\ SchedIdle
    /\ \E s \in SourceSets : state = [initial_state EXCEPT !.sources = s]
    /\ applied = <<>>
    /\ MergeIdle

Next ==
    \/ initialize
    \/ run
    \/ manual
    \/ \E f \in FindStart : omnifunc(f)
    \/ insert_enter
    \/ char_inserted
    \/ text_changed_i
    \/ text_changed_p
    \/ \E l \in Loops : schedule_admit(l)
    \/ \E l \in Loops : gen(l)
    \/ \E l \in Loops : l1_complete(l)
    \/ \E l \in Loops : l1_comp_inserted(l)

Spec == Init /\ [][Next]_vars

\* the scheduling the event loop and the executor guarantee: a queued
\* coroutine is run, a waiting scheduler takes the next Signal, a merge ends
\* (it is bounded by its timeouts), a ranked result is handed over and
\* complete() returns
Fairness ==
    /\ WF_vars(run)
    /\ \A l \in Loops :
        /\ WF_vars(schedule_admit(l))
        /\ WF_vars(gen(l))
        /\ WF_vars(l1_complete(l))
        /\ WF_vars(l1_comp_inserted(l))

\* the steps the scheduler's progress depends on: the plugin is started,
\* Signals are requested (forced by NAPmanual, unforced by InsertEnter), the
\* executor, the scheduler, the merge and the consumer loop run
LiveNext ==
    \/ initialize
    \/ run
    \/ manual
    \/ insert_enter
    \/ \E l \in Loops : schedule_admit(l)
    \/ \E l \in Loops : gen(l)
    \/ \E l \in Loops : l1_complete(l)
    \/ \E l \in Loops : l1_comp_inserted(l)

FairSpec == Init /\ [][LiveNext]_vars /\ Fairness

-----------------------------------------------------------------------------
(* Properties of the scheduler and of the event handlers *)

PutPending == \E i \in 1..Len(chan) : chan[i].co = "put"

\* a settling point: the orchestration loop runs and nothing is left to do
Settled ==
    /\ \E l \in Loops : pcl1[l] = "next"
    /\ \A l \in Loops : pcl1[l] # "complete"
    /\ ~PutPending
    /\ ch = <<>>
    /\ InFlight = {}

\* C1: a request whose merge was in flight when a later Signal was put on the
\* channel is never handed to the consumer loop; at a settling point the
\* result handed over last is that of the latest request.
C1_Supersession ==
    /\ delivered \cap superseded = {}
    /\ (Settled /\ nsig > 0) => nsig \in delivered

C1_Witness ==
    \E r1 \in superseded, r2 \in delivered : r1 < r2 /\ mstat[r1] = "cancelled"

\* C2: at most one merge operation is neither Delivered nor Cancelled, and
\* the step that makes a merge active cancels the merge in flight before it.
C2_OneActiveMerge ==
    /\ [](Cardinality(InFlight) <= 1)
    /\ [][\A r \in Requests :
            (mstat[r] = "none" /\ mstat'[r] = "running")
                => \A q \in InFlight : mstat'[q] = "cancelled"]_vars

C2_Witness ==
    \E r \in Requests, q \in InFlight : mstat[r] = "cancelled" /\ r < q

\* C4: a text-changed event submits exactly one non-forced Signal carrying the
\* state's sources if t_natural_insertable held before it and nothing
\* otherwise; it leaves t_text_changed(state); so the text-changed events
\* after one character insertion submit at most one Signal.
C4_TextChanged ==
    /\ [](lastTC.seen =>
            IF lastTC.char /\ ~lastTC.comp
            THEN lastTC.sent = <<[force |-> FALSE, sources |-> TRUE]>>
            ELSE lastTC.sent = <<>>)
    /\ [](tcSigs <= 1)
    /\ [][(text_changed_i \/ text_changed_p) => state' = t_text_changed(state)]_vars

C4_Witness ==
    /\ lastTC.seen /\ lastTC.char /\ ~lastTC.comp
    /\ Len(lastTC.sent) = 1
    /\ tcSigs = 1
    /\ ~state.char_inserted

\* C7: a text-changed event that follows a delivered completion (line 88 has
\* applied comp_inserted since the previous text-changed event) submits no
\* Signal, whether or not a character was inserted in between.
C7_CompInsertedWins ==
    (lastTC.seen /\ lastTC.since) => lastTC.sent = <<>>

C7_Witness ==
    lastTC.seen /\ lastTC.since /\ lastTC.char /\ lastTC.sent = <<>>

Last(q) == q[Len(q)]

ForcedPut(c, s) ==
    c.co = "put" /\ c.sig.force = TRUE /\ c.sig.sources = s.sources

\* C8: NAPmanual, and the omnifunc called with find_start # 1, submit exactly
\* one Signal with force = TRUE in any state and leave the state alone; the
\* omnifunc called with find_start = 1 submits nothing.
C8_ForcedAlwaysAdmitted ==
    /\ [][manual =>
            /\ Len(chan') = Len(chan) + 1
            /\ SubSeq(chan', 1, Len(chan)) = chan
            /\ ForcedPut(Last(chan'), state)
            /\ state' = state]_vars
    /\ [][(\E f \in FindStart \ {1} : omnifunc(f)) =>
            /\ Len(chan') = Len(chan) + 1
            /\ SubSeq(chan', 1, Len(chan)) = chan
            /\ ForcedPut(Last(chan'), state)
            /\ state' = state]_vars
    /\ [][omnifunc(1) => UNCHANGED <<chan, nsig, state>>]_vars
    /\ [](\A i \in 1..Len(chan) :
            (chan[i].co = "put" /\ chan[i].sig.by \in {"manual", "omnifunc"})
                => chan[i].sig.force)

C8_Witness ==
    \E i \in 1..Len(chan), j \in 1..Len(chan) :
        /\ chan[i].co = "put" /\ chan[i].sig.by = "manual"
        /\ chan[i].sig.force /\ ~chan[i].sig.nat
        /\ chan[j].co = "put" /\ chan[j].sig.by = "omnifunc"
        /\ chan[j].sig.force /\ ~chan[j].sig.nat

OnChannel(r) == \E i \in 1..Len(ch) : ch[i].id = r

Running == \E l \in Loops : pcl1[l] # "off"

-----------------------------------------------------------------------------
(* The editor-state transitions as pure functions: every State is an input,
   every sequence of at most MaxApplied transitions is applied to it *)

apply(name, s) ==
    CASE name = "char_inserted" -> t_char_inserted(s)
      [] name = "comp_inserted" -> t_comp_inserted(s)
      [] name = "text_changed" -> t_text_changed(s)

T_step(name) ==
    /\ Len(applied) < MaxApplied
    /\ state' = apply(name, state)
    /\ applied' = Append(applied, name)
    /\ UNCHANGED <<schedVars, mergeVars>>

T_char_inserted == T_step("char_inserted")
T_comp_inserted == T_step("comp_inserted")
T_text_changed == T_step("text_changed")

InitT ==
    /\ SchedIdle
    /\ state \in States
    /\ applied = <<>>
    /\ MergeIdle

NextT == T_char_inserted \/ T_comp_inserted \/ T_text_changed

SpecT == InitT /\ [][NextT]_vars

\* the last k transitions applied are q
EndsWith(q) ==
    /\ Len(applied) >= Len(q)
    /\ SubSeq(applied, Len(applied) - Len(q) + 1, Len(applied)) = q

\* C5: for every State s, natural_insertable(comp_inserted(char_inserted(s)))
\* is false.
C5_CompAfterCharNotInsertable ==
    EndsWith(<<"char_inserted", "comp_inserted">>) => ~t_natural_insertable(state)

C5_Witness ==
    /\ applied = <<"char_inserted", "comp_inserted">>
    /\ state.char_inserted /\ state.comp_inserted

\* C6: for every State s, natural_insertable is false of comp_inserted(s),
\* comp_inserted is false in text_changed(comp_inserted(s)), and
\* natural_insertable(char_inserted(text_changed(comp_inserted(s)))) is true:
\* one comp_inserted suppresses the text-changed event that follows it and no
\* later one.
C6_OneShotSuppression ==
    /\ EndsWith(<<"comp_inserted">>) => ~t_natural_insertable(state)
    /\ EndsWith(<<"comp_inserted", "text_changed">>) => ~state.comp_inserted
    /\ EndsWith(<<"comp_inserted", "text_changed", "char_inserted">>)
            => t_natural_insertable(state)

C6_Witness ==
    /\ applied = <<"comp_inserted", "text_changed", "char_inserted">>
    /\ t_natural_insertable(state)

-----------------------------------------------------------------------------
(* Settings and factory assembly: narc/server/settings.py *)

\* Optional[...] fields: None stands for an absent value
None == -1

\* math.inf
inf == 1000

DefaultRank == 100

\* the names of the bundled sources (load_factories, the intrinsic dict)
Intrinsic == {"around", "buffers", "lsp", "paths", "tmux", "tree_sitter"}

\* a value Python's "or" replaces by its right operand
Falsy(x) == x = None \/ x = 0

\* load_source: the SourceSpec of one entry of config["sources"]
load_source(config) ==
    [main |-> config.main, enabled |-> config.enabled, limit |-> config.limit,
     unique |-> config.unique, rank |-> config.rank]

Seed(match, limit) == [match |-> match, limit |-> limit]

\* assemble with a Seed that carries no limit
assemble_seed_unbounded(spec, main, match) ==
    LET limit == IF Falsy(spec.limit) THEN inf ELSE spec.limit
        rank == IF Falsy(spec.rank) THEN DefaultRank ELSE spec.rank
    IN  [enabled |-> spec.enabled, limit |-> limit, unique |-> spec.unique,
         rank |-> rank, seed |-> Seed(match, inf), manufacture |-> main]

\* assemble that does not copy the unique flag
assemble_not_unique(spec, main, match) ==
    LET limit == IF Falsy(spec.limit) THEN inf ELSE spec.limit
        rank == IF Falsy(spec.rank) THEN DefaultRank ELSE spec.rank
    IN  [enabled |-> spec.enabled, limit |-> limit, unique |-> FALSE,
         rank |-> rank, seed |-> Seed(match, limit), manufacture |-> main]

\* assemble: the SourceFactory of a SourceSpec
assemble(spec, main, match) ==
    LET limit == IF Falsy(spec.limit) THEN inf ELSE spec.limit
        rank == IF Falsy(spec.rank) THEN DefaultRank ELSE spec.rank
    IN  [enabled |-> spec.enabled, limit |-> limit, unique |-> spec.unique,
         rank |-> rank, seed |-> Seed(match, limit), manufacture |-> main]

\* shared.consts.load_hierarchy: the directories searched for a module, in order
load_hierarchy == <<"client", "user">>

\* a file of the file system: the directory it is in, its name, and whether
\* the module defines a function named module_entry_point
File(path, name, entry) == [path |-> path, name |-> name, entry |-> entry]

RECURSIVE find_entry(_, _)
find_entry(paths, main_name) ==
    IF paths = <<>> THEN ""
    ELSE IF File(Head(paths), main_name, TRUE) \in modules THEN main_name
    ELSE find_entry(Tail(paths), main_name)

\* load_external: the entry point of the first module named main_name on
\* load_hierarchy that defines one, "" (None) when there is none
load_external(main_name) == find_entry(load_hierarchy, main_name)

\* load_factories that assembles every configured source, resolved or not
load_factories_unchecked(conf) ==
    [name \in DOMAIN conf.sources |->
        assemble(conf.sources[name],
                 IF name \in Intrinsic THEN name
                 ELSE load_external(conf.sources[name].main),
                 conf.match)]

\* load_factories that leaves out the sources that are not enabled
load_factories_enabled(conf) ==
    LET external == {name \in DOMAIN conf.sources \ Intrinsic :
                        load_external(conf.sources[name].main) # ""}
    IN  [name \in {n \in Intrinsic \cup external : conf.sources[n].enabled} |->
            assemble(conf.sources[name],
                     IF name \in Intrinsic THEN name
                     ELSE load_external(conf.sources[name].main),
                     conf.match)]

\* load_factories: every bundled source is assembled from its SourceSpec, and
\* every other configured source whose entry point resolves
load_factories(conf) ==
    LET external == {name \in DOMAIN conf.sources \ Intrinsic :
                        load_external(conf.sources[name].main) # ""}
    IN  [name \in Intrinsic \cup external |->
            assemble(conf.sources[name],
                     IF name \in Intrinsic THEN name
                     ELSE load_external(conf.sources[name].main),
                     conf.match)]

-----------------------------------------------------------------------------
(* The merge of one request: server/completion.py, modelled from section 4.3 *)

MaxFeed == 3
MaxDisplay == 2

\* normalized texts, by their place in the collation order
Texts == {1, 2}

\* match scores of the fuzzy matcher: 0 is "no match", a higher score is better
Scores == {0, 1, 2}

Candidates == [text : Texts, score : Scores]

\* the order in which the sources' completions arrive at the ranking stage
SourceOrder == <<"around", "buffers", "lsp", "paths", "tmux", "tree_sitter">>

Min(a, b) == IF a < b THEN a ELSE b

Take(seq, n) == SubSeq(seq, 1, Min(n, Len(seq)))

\* step 1: the enabled sources the request asks for
effective_sources(request, factories) ==
    {name \in DOMAIN factories : factories[name].enabled /\ name \in request.sources}

\* step 5: completions the matcher rejects are dropped
matched(feed) == SelectSeq(feed, LAMBDA c : c.score > 0)

RECURSIVE pick(_, _)
pick(seq, keep) ==
    IF seq = <<>> THEN <<>>
    ELSE LET rest == pick(Tail(seq), [i \in 1..(Len(seq) - 1) |-> keep[i + 1]])
         IN  IF keep[1] THEN <<Head(seq)>> \o rest ELSE rest

\* step 6: of the completions with one normalized text, the best-scoring one
\* is kept (the first of them, if several score best)
dedupe(seq) ==
    pick(seq, [i \in 1..Len(seq) |->
                ~\E j \in 1..Len(seq) :
                    /\ j # i
                    /\ seq[j].text = seq[i].text
                    /\ \/ seq[j].score > seq[i].score
                       \/ (seq[j].score = seq[i].score /\ j < i)])

\* steps 5-7 for one source: its Steps, capped at the limit of its Seed
source_steps(name, feed, fact) ==
    LET m == matched(feed)
        d == IF fact.unique THEN dedupe(m) ELSE m
        c == Take(d, fact.seed.limit)
    IN  [i \in 1..Len(c) |-> [source |-> name, text |-> c[i].text, score |-> c[i].score]]

\* step 7: the ranking key (rank bias, score best first, normalized text)
rank_le(a, b, factories) ==
    LET ra == factories[a.source].rank
        rb == factories[b.source].rank
    IN  \/ ra < rb
        \/ ra = rb /\ a.score > b.score
        \/ ra = rb /\ a.score = b.score /\ a.text <= b.text

RECURSIVE insert(_, _, _)
insert(x, seq, factories) ==
    IF seq = <<>> THEN <<x>>
    ELSE IF rank_le(Head(seq), x, factories)
         THEN <<Head(seq)>> \o insert(x, Tail(seq), factories)
         ELSE <<x>> \o seq

RECURSIVE ranked(_, _)
ranked(seq, factories) ==
    IF seq = <<>> THEN <<>>
    ELSE insert(Head(seq), ranked(Tail(seq), factories), factories)

RECURSIVE gathered(_, _, _, _)
gathered(order, fds, factories, selected) ==
    IF order = <<>> THEN <<>>
    ELSE (IF Head(order) \in selected
          THEN source_steps(Head(order), fds[Head(order)], factories[Head(order)])
          ELSE <<>>)
         \o gathered(Tail(order), fds, factories, selected)

\* steps 1-7: the Steps one merge emits
merge(request, factories, conf, fds) ==
    CHOOSE out \in {Take(ranked(g, factories), conf.display_limit) :
                        g \in {gathered(SourceOrder, fds, factories,
                                        effective_sources(request, factories))}} : TRUE

-----------------------------------------------------------------------------
(* One merge operation on every configuration and every feed *)

\* the configured limits and rank biases
Limits == {None, 1}
Ranks == {None, 50}

Varied == {"buffers", "lsp"}

Config(enabled, limit, unique, rank, main) ==
    [main |-> main, enabled |-> enabled, limit |-> limit, unique |-> unique, rank |-> rank]

SettingsSet ==
    {[sources |-> [name \in Intrinsic |->
                    IF name \in Varied THEN load_source(v[name])
                    ELSE load_source(Config(FALSE, None, FALSE, None, name))],
      match |-> "match",
      display_limit |-> d] :
        v \in [Varied -> {Config(TRUE, l, u, r, "main") :
                            l \in Limits, u \in BOOLEAN, r \in Ranks}],
        d \in 1..MaxDisplay}

BSeq(S, n) == UNION {[1..k -> S] : k \in 0..n}

NoFeeds == [name \in Intrinsic |-> <<>>]

request == GenOptions(FALSE, state.sources)

\* steps 2-4: every selected source has run to its end or to its deadline; the
\* completions it yielded until then are what the merge has of it
fan_out ==
    /\ mphase = "pending"
    /\ \E fb \in BSeq(Candidates, MaxFeed) :
        \E fl \in BSeq(Candidates, MaxFeed - Len(fb)) :
            /\ ("lsp" \notin effective_sources(request, load_factories(settings))
                    => fl = <<>>)
            /\ feeds' = [NoFeeds EXCEPT !["buffers"] = fb, !["lsp"] = fl]
    /\ mphase' = "ranking"
    /\ UNCHANGED <<schedVars, state, applied, modules, settings, steps, fanVars>>

\* steps 5-8: the gathered completions are ranked and emitted
rank ==
    /\ mphase = "ranking"
    /\ steps' = merge(request, load_factories(settings), settings, feeds)
    /\ mphase' = "delivered"
    /\ UNCHANGED <<schedVars, state, applied, modules, settings, feeds, fanVars>>

InitM ==
    /\ SchedIdle
    /\ \E s \in SourceSets : state = [initial_state EXCEPT !.sources = s]
    /\ applied = <<>>
    /\ modules = {}
    /\ settings \in SettingsSet
    /\ feeds = NoFeeds
    /\ mphase = "pending"
    /\ steps = <<>>
    /\ FanIdle

NextM == fan_out \/ rank

SpecMerge == InitM /\ [][NextM]_vars

factory(name) == load_factories(settings)[name]

FromSource(name) == {i \in 1..Len(steps) : steps[i].source = name}

\* C9: an emitted sequence is sorted by (rank bias ascending, score best
\* first, normalized text ascending), holds from each source at most the limit
\* of its SourceFactory, and is no longer than the display limit.
C9_RankedAndCapped ==
    mphase = "delivered" =>
        /\ \A i \in 1..Len(steps), j \in 1..Len(steps) :
            i < j =>
                LET ri == factory(steps[i].source).rank
                    rj == factory(steps[j].source).rank
                IN  \/ ri < rj
                    \/ ri = rj /\ steps[i].score > steps[j].score
                    \/ ri = rj /\ steps[i].score = steps[j].score
                               /\ steps[i].text <= steps[j].text
        /\ \A name \in Intrinsic :
            Cardinality(FromSource(name)) <= factory(name).limit
        /\ Len(steps) <= settings.display_limit

C9_Witness ==
    /\ mphase = "delivered"
    /\ Len(steps) = 2
    /\ steps[1].source = "lsp" /\ steps[2].source = "buffers"
    /\ steps[1].score < steps[2].score
    /\ settings.sources["buffers"].limit = 1
    /\ Len(matched(feeds["buffers"])) = 2

\* C10: a source configured with unique = true contributes no two Steps with
\* the same normalized text.
C10_UniqueSource ==
    mphase = "delivered" =>
        \A i \in 1..Len(steps), j \in 1..Len(steps) :
            (/\ i # j
             /\ steps[i].source = steps[j].source
             /\ settings.sources[steps[i].source].unique)
                => steps[i].text # steps[j].text

C10_Witness ==
    /\ mphase = "delivered"
    /\ settings.sources["buffers"].unique
    /\ Len(feeds["buffers"]) = 2
    /\ feeds["buffers"][1].text = feeds["buffers"][2].text
    /\ feeds["buffers"][1].score = 1 /\ feeds["buffers"][2].score = 2
    /\ steps = <<[source |-> "buffers", text |-> feeds["buffers"][2].text, score |-> 2]>>

-----------------------------------------------------------------------------
(* The source tasks of one merge and their deadlines: `initial` of          *)
(* settings.py for the timeout, section 4.3 steps 2-4 for the tasks         *)

MaxTime == 3
MaxYield == 1

\* config["timeout"] in milliseconds: absent, 0, one second, two seconds
Timeouts == {None, 0, 1000, 2000}

\* the timeout the entry of one source in config["sources"] may state
SourceTimeouts == {None, 1000}

\* initial with a timeout that is never bounded
initial_unbounded(config) ==
    [sources |-> [name \in DOMAIN config.sources |-> load_source(config.sources[name])],
     match |-> config.match,
     timeout |-> inf,
     display_limit |-> config.display_limit]

\* initial: the Settings of the merged configuration; the timeout is
\* (config["timeout"] or inf) / 1000, seconds
initial(config) ==
    [sources |-> [name \in DOMAIN config.sources |-> load_source(config.sources[name])],
     match |-> config.match,
     timeout |-> IF Falsy(config.timeout) THEN inf ELSE config.timeout \div 1000,
     display_limit |-> config.display_limit]

TimedConfig(enabled, timeout, main) ==
    [main |-> main, enabled |-> enabled, limit |-> None, unique |-> FALSE,
     rank |-> None, timeout |-> timeout]

FanConfigs ==
    {[sources |-> [name \in Intrinsic |->
                    IF name = "lsp" THEN TimedConfig(TRUE, t, name)
                    ELSE TimedConfig(name = "buffers", None, name)],
      match |-> "match",
      timeout |-> g,
      display_limit |-> inf] : t \in SourceTimeouts, g \in Timeouts}

\* the completions a source task yields in this part
Yields == {[text |-> 1, score |-> 1], [text |-> 2, score |-> 2]}

\* step 2: the timeout that bounds a source task, the factory's own when it
\* has one and the Settings' otherwise
source_timeout(fact, conf) ==
    IF "timeout" \in DOMAIN fact /\ fact.timeout # None THEN fact.timeout
    ELSE conf.timeout

RunningTasks == {name \in Intrinsic : sstat[name] = "running"}

\* step 2: every selected source is launched as a task of its own
launch ==
    /\ mphase = "pending"
    /\ sstat' = [name \in Intrinsic |->
                    IF name \in effective_sources(request, loaded) THEN "running"
                    ELSE "idle"]
    /\ mphase' = "fanning"
    /\ UNCHANGED <<schedVars, state, applied, modules, settings, feeds, steps,
                   cfg, loaded, now, snap>>

\* step 3: a running task yields a completion, consumed as it arrives
yield(name, c) ==
    /\ mphase = "fanning"
    /\ sstat[name] = "running"
    /\ Len(feeds[name]) < MaxYield
    /\ feeds' = [feeds EXCEPT ![name] = Append(@, c)]
    /\ UNCHANGED <<schedVars, state, applied, modules, settings, mphase, steps,
                   cfg, loaded, now, sstat, snap>>

\* a task terminates on its own
finish(name) ==
    /\ mphase = "fanning"
    /\ sstat[name] = "running"
    /\ sstat' = [sstat EXCEPT ![name] = "completed"]
    /\ snap' = [snap EXCEPT ![name] = feeds[name]]
    /\ UNCHANGED <<schedVars, state, applied, modules, settings, feeds, mphase,
                   steps, cfg, loaded, now>>

\* step 4, section 7 (1): a task raises; the failure stays at the fan-out boundary
fail(name) ==
    /\ mphase = "fanning"
    /\ sstat[name] = "running"
    /\ sstat' = [sstat EXCEPT ![name] = "failed"]
    /\ snap' = [snap EXCEPT ![name] = feeds[name]]
    /\ UNCHANGED <<schedVars, state, applied, modules, settings, feeds, mphase,
                   steps, cfg, loaded, now>>

\* a second passes while no running task is at its deadline
tick ==
    /\ mphase = "fanning"
    /\ RunningTasks # {}
    /\ now < MaxTime
    /\ \A name \in RunningTasks : now < source_timeout(loaded[name], settings)
    /\ now' = now + 1
    /\ UNCHANGED <<schedVars, state, applied, modules, settings, feeds, mphase,
                   steps, cfg, loaded, sstat, snap>>

\* step 4: a task still running at its deadline is abandoned, what it yielded is kept
deadline(name) ==
    /\ mphase = "fanning"
    /\ sstat[name] = "running"
    /\ now >= source_timeout(loaded[name], settings)
    /\ sstat' = [sstat EXCEPT ![name] = "timedout"]
    /\ snap' = [snap EXCEPT ![name] = feeds[name]]
    /\ UNCHANGED <<schedVars, state, applied, modules, settings, feeds, mphase,
                   steps, cfg, loaded, now>>

\* step 4: an abandoned task may run on in the background; what it yields is ignored
late(name, c) ==
    /\ mphase = "fanning"
    /\ sstat[name] = "timedout"
    /\ sstat' = [sstat EXCEPT ![name] = "late"]
    /\ UNCHANGED <<schedVars, state, applied, modules, settings, feeds, mphase,
                   steps, cfg, loaded, now, snap>>

\* a failed task counts as an empty result whatever it yielded before it raised
contributions_failed_kept == feeds

\* what each task hands to the ranking stage
contributions ==
    [name \in Intrinsic |-> IF sstat[name] = "failed" THEN <<>> ELSE feeds[name]]

\* steps 5-8: no task is awaited any more; the gathered completions are
\* ranked and emitted
collect ==
    /\ mphase = "fanning"
    /\ RunningTasks = {}
    /\ steps' = merge(request, loaded, settings, contributions)
    /\ mphase' = "delivered"
    /\ UNCHANGED <<schedVars, state, applied, modules, settings, feeds, cfg,
                   loaded, now, sstat, snap>>

\* section 4.2: the scheduler supersedes the merge
cancel ==
    /\ mphase \in {"pending", "fanning"}
    /\ mphase' = "cancelled"
    /\ UNCHANGED <<schedVars, state, applied, modules, settings, feeds, steps,
                   cfg, loaded, now, sstat, snap>>

InitF ==
    /\ SchedIdle
    /\ state = [initial_state EXCEPT !.sources = {"buffers", "lsp"}]
    /\ applied = <<>>
    /\ modules = {}
    /\ cfg \in FanConfigs
    /\ settings = initial(cfg)
    /\ loaded = load_factories(settings)
    /\ feeds = NoFeeds
    /\ mphase = "pending"
    /\ steps = <<>>
    /\ now = 0
    /\ sstat = [name \in Intrinsic |-> "idle"]
    /\ snap = NoFeeds

NextF ==
    \/ launch
    \/ \E name \in Varied, c \in Yields : yield(name, c)
    \/ \E name \in Varied : finish(name)
    \/ \E name \in Varied : fail(name)
    \/ tick
    \/ \E name \in Varied : deadline(name)
    \/ \E name \in Varied, c \in Yields : late(name, c)
    \/ collect
    \/ cancel

\* the merge engine and the clock take their steps; a source task is under
\* no obligation to yield, to terminate or to raise
FanFairness ==
    /\ WF_vars(launch)
    /\ WF_vars(tick)
    /\ \A name \in Varied : WF_vars(deadline(name))
    /\ WF_vars(collect)

SpecFan == InitF /\ [][NextF]_vars /\ FanFairness

Done == mphase \in {"delivered", "cancelled"}

Abandoned == {name \in Intrinsic : sstat[name] \in {"timedout", "late"}}

\* the Steps of one source in the emitted sequence
StepsOf(name) == SelectSeq(steps, LAMBDA s : s.source = name)

\* C11 as stated: a merge always terminates, whatever its sources do.
C11_AlwaysTerminates == <>Done

\* C11: when the configuration states a timeout other than 0, a merge reaches
\* Delivered or Cancelled even when a source never returns, and a source
\* abandoned at its deadline contributes exactly what it had yielded by then.
C11_TerminatesWithinTimeout ==
    /\ ~Falsy(cfg.timeout) => <>Done
    /\ [](mphase = "delivered" =>
            \A name \in Abandoned :
                StepsOf(name) = ranked(source_steps(name, snap[name], loaded[name]), loaded))

C11_Witness ==
    /\ mphase = "delivered"
    /\ cfg.timeout = 1000
    /\ now = 1
    /\ sstat["lsp"] = "late"
    /\ sstat["buffers"] = "completed"
    /\ Len(snap["lsp"]) = 1
    /\ Len(StepsOf("lsp")) = 1

\* the sources the merge launched a task for
Selected == effective_sources(request, loaded)

configured_timeout(name) ==
    IF cfg.sources[name].timeout # None THEN cfg.sources[name].timeout \div 1000
    ELSE settings.timeout

\* C13: each source task is bounded by the source's own effective timeout (its
\* own when configured, the global one otherwise): it is not running past it,
\* and nothing it yields after it is taken into the merge.
C13_OwnTimeout ==
    /\ [](\A name \in Intrinsic :
            sstat[name] = "running" => now <= configured_timeout(name))
    /\ [][\A name \in Intrinsic :
            feeds'[name] # feeds[name] => now <= configured_timeout(name)]_vars

-----------------------------------------------------------------------------
(* Loading the Settings and the factory map: initial, load_factories *)

\* the limits and rank biases a source's entry of config["sources"] may state
SpecLimits == {None, 0, 1}
SpecRanks == {None, 0, 50}

\* the sources a user configures besides the bundled ones, and their modules
External == {"ext_a", "ext_b"}
main_of(name) == IF name = "ext_a" THEN "a.py" ELSE "b.py"

\* what a directory of load_hierarchy holds under a name: nothing, a module
\* without the entry point, a module with it
FileKinds == {"absent", "plain", "entry"}

Dirs == {load_hierarchy[i] : i \in DOMAIN load_hierarchy}

FileSystems ==
    {{File(pm[1], pm[2], k[pm] = "entry") :
        pm \in {q \in Dirs \X {main_of(e) : e \in External} : k[q] # "absent"}} :
     k \in [Dirs \X {main_of(e) : e \in External} -> FileKinds]}

LoadConfigs ==
    {[sources |-> [name \in Intrinsic \cup ext |->
                    IF name = "buffers" THEN Config(en[name], l, FALSE, r, name)
                    ELSE IF name \in External THEN Config(en[name], None, FALSE, None, main_of(name))
                    ELSE Config(FALSE, None, FALSE, None, name)],
      match |-> "match",
      timeout |-> None,
      display_limit |-> inf] :
        ext \in SUBSET External, en \in [External \cup {"buffers"} -> BOOLEAN],
        l \in SpecLimits, r \in SpecRanks}

\* Main.__init__: self.settings = initial(configs=(client, user))
read_settings ==
    /\ mphase = "config"
    /\ settings' = initial(cfg)
    /\ mphase' = "settings"
    /\ UNCHANGED <<schedVars, state, applied, feeds, modules, steps, cfg, loaded,
                   now, sstat, snap>>

\* ooda: factories = load_factories(settings=self.settings)
load ==
    /\ mphase = "settings"
    /\ loaded' = load_factories(settings)
    /\ mphase' = "loaded"
    /\ UNCHANGED <<schedVars, state, applied, feeds, modules, settings, steps,
                   cfg, now, sstat, snap>>

InitL ==
    /\ SchedIdle
    /\ state = initial_state
    /\ applied = <<>>
    /\ modules \in FileSystems
    /\ cfg \in LoadConfigs
    /\ settings = <<>>
    /\ loaded = <<>>
    /\ feeds = <<>>
    /\ mphase = "config"
    /\ steps = <<>>
    /\ now = 0
    /\ sstat = <<>>
    /\ snap = <<>>

NextL == read_settings \/ load

SpecLoad == InitL /\ [][NextL]_vars

\* a directory of load_hierarchy holds a module of that name with the entry point
Resolves(main_name) == \E d \in Dirs : File(d, main_name, TRUE) \in modules

\* C14: load_factories of Settings with a source that is not bundled and whose
\* entry point cannot be resolved returns a map without an entry for it.
C14_UnresolvedOmitted ==
    mphase = "loaded" =>
        \A name \in DOMAIN settings.sources \ Intrinsic :
            ~Resolves(settings.sources[name].main) => name \notin DOMAIN loaded

C14_Witness ==
    /\ mphase = "loaded"
    /\ DOMAIN settings.sources = Intrinsic \cup External
    /\ modules = {File("client", "a.py", FALSE), File("user", "b.py", TRUE)}
    /\ "ext_a" \notin DOMAIN loaded
    /\ "ext_b" \in DOMAIN loaded

\* C16: the keys of the map load_factories returns are the six bundled names
\* and the other configured names whose entry point resolves, no more and no
\* fewer; the enabled flag does not decide membership, it is copied into the
\* SourceFactory.
C16_FactoryKeys ==
    mphase = "loaded" =>
        /\ DOMAIN loaded =
            Intrinsic \cup {name \in DOMAIN settings.sources \ Intrinsic :
                                Resolves(settings.sources[name].main)}
        /\ \A name \in DOMAIN loaded : loaded[name].enabled = cfg.sources[name].enabled

C16_Witness ==
    /\ mphase = "loaded"
    /\ DOMAIN cfg.sources = Intrinsic \cup External
    /\ ~cfg.sources["buffers"].enabled
    /\ ~cfg.sources["ext_a"].enabled /\ Resolves("a.py")
    /\ cfg.sources["ext_b"].enabled /\ ~Resolves("b.py")
    /\ DOMAIN loaded = Intrinsic \cup {"ext_a"}
    /\ ~loaded["ext_a"].enabled

\* C20: the SourceFactory assemble builds has the rank the SourceSpec states
\* whenever it states one (100 only when it states none), the limit the
\* SourceSpec states whenever it states one (unbounded only when it states
\* none), and a Seed with the factory's limit.
C20_RankAndLimitPreserved ==
    mphase = "loaded" =>
        \A name \in DOMAIN loaded :
            LET spec == settings.sources[name]
                fact == loaded[name]
            IN  /\ fact.rank = IF spec.rank = None THEN DefaultRank ELSE spec.rank
                /\ fact.limit = IF spec.limit = None THEN inf ELSE spec.limit
                /\ fact.seed.limit = fact.limit

-----------------------------------------------------------------------------
(* Ownership of Main.state, the Signals' way to the channel, NAPstart *)

\* C15: Main.state changes only by one whole transition applied to the State
\* of that moment: l1's line 88 applies comp_inserted to the State as it is
\* after complete() returned, a handler applies char_inserted or text_changed,
\* and neither the executor's worker nor the scheduler touches it; so the
\* State is always the transitions applied one after another, none lost.
C15_SequentialState ==
    [][/\ (\E l \in Loops : pcl1[l] = "complete" /\ pcl1'[l] # "complete")
            => state' = t_comp_inserted(state)
       /\ pcl1' = pcl1
            => state' \in {state, t_char_inserted(state), t_text_changed(state)}
       /\ (Len(chan') < Len(chan) \/ mstat' # mstat) => state' = state]_vars

C15_Witness ==
    /\ state.char_inserted
    /\ state.comp_inserted
    /\ compSinceTC
    /\ lastTC.seen
    /\ \E l \in Loops : pcl1[l] = "next"

\* C17: a Signal submitted by a handler carries State.sources of that moment;
\* no handler of Main and no delivery changes State.sources; set_sources and
\* toggle_sources change only the sources, never the two flags.
C17_SignalSources ==
    /\ [][\A i \in (Len(chan) + 1)..Len(chan') :
            chan'[i].co = "put" => chan'[i].sig.sources = state.sources]_vars
    /\ [][state'.sources = state.sources]_vars
    /\ [](\A x \in SUBSET {"buffers", "lsp"} :
            /\ t_set_sources(state, x) = State(state.char_inserted, state.comp_inserted, x)
            /\ t_toggle_sources(state, x).char_inserted = state.char_inserted
            /\ t_toggle_sources(state, x).comp_inserted = state.comp_inserted)

C17_Witness ==
    /\ state.sources = {"buffers", "lsp"}
    /\ state.comp_inserted
    /\ Len(ch) = 2
    /\ ch[1].by = "insert_enter" /\ ch[1].sources = {"buffers", "lsp"}
    /\ ch[2].by = "text_changed_i" /\ ch[2].sources = {"buffers", "lsp"}

\* the request ids of the Signals the queued coroutines will put, in queue order
PutIds(q) ==
    LET puts == SelectSeq(q, LAMBDA c : c.co = "put")
    IN  [i \in 1..Len(puts) |-> puts[i].sig.id]

ChIds == [i \in 1..Len(ch) |-> ch[i].id]

Count(s, r) == Cardinality({i \in 1..Len(s) : s[i] = r})

\* C18: the Signals are on the channel, and leave it, in the order their
\* triggers occurred, and each call of next_comp makes exactly one Signal:
\* every request made so far is once on its way (queued on the executor or
\* on the channel) or has been admitted, and no later request is ahead of an
\* earlier one.
C18_TriggerOrder ==
    LET way == ChIds \o PutIds(chan) IN
    /\ \A i \in 1..Len(way), j \in 1..Len(way) : i < j => way[i] < way[j]
    /\ \A r \in Requests :
        Count(way, r) + (IF mstat[r] # "none" THEN 1 ELSE 0)
            = (IF r <= nsig THEN 1 ELSE 0)
    /\ \A r \in Requests :
        mstat[r] # "none" => \A i \in 1..Len(way) : r < way[i]

C18_Witness ==
    /\ ChIds = <<2>>
    /\ PutIds(chan) = <<3>>
    /\ mstat[1] = "running"
    /\ ch[1].by = "manual"
    /\ chan[1].sig.by = "insert_enter"

\* the orchestration loops started: each has gathered one listen() on msg_ch
\* and one l1() reading schedule(chan=self.ch)
Oodas == {l \in Loops : pcl1[l] # "off"}

Setups == {i \in 1..Len(chan) : chan[i].co = "setup"}

\* C19: however often NAPstart is invoked, setup() is submitted once and one
\* orchestration loop is started, so ch never has more than one consumer and
\* msg_ch never more than one listener.
C19_StartedOnce ==
    /\ Cardinality(Oodas) = (IF initialized THEN 1 ELSE 0)
    /\ Cardinality(Setups) + (IF autocmds THEN 1 ELSE 0)
        = (IF initialized THEN 1 ELSE 0)

C19_Witness ==
    /\ autocmds
    /\ chan = <<CoPrint, CoPrint>>
    /\ Cardinality(Oodas) = 1

====
